---------------------------- MODULE Spec2Model ----------------------------
(***************************************************************************)
(* Crawl orchestration of src/spider/spider_main.py: one batch             *)
(* (run_crawl_once) fans (city, job) tasks out to spiders that page a      *)
(* remote search API and put records on a multiprocessing queue; a single  *)
(* writer process drains the queue into data/qcwy.csv; the launcher joins  *)
(* the spiders, puts "STOP", joins the writer and renders the HTML         *)
(* preview.  main() runs one batch, or gates batches to a daily window.    *)
(***************************************************************************)
EXTENDS Integers, Sequences, FiniteSets, TLC

(***************************************************************************)
(* Bounds of the model.                                                    *)
(***************************************************************************)
\* largest per-task limit a caller passes
MaxLimit == 2
\* the unread records the pipe of the queue holds whatever their size (the
\* pipe has a fixed size in bytes; a record has no size here)
PipeCapacity == 1
\* last minute of main's clock that is explored
MaxNow == 1565
\* longest batch, in minutes
MaxBatchMinutes == 10
\* seconds of the writer's clock that pass in one step of it
TickLen == 20
\* largest number of entries the remote API returns in one page
MaxPageSize == 2
\* pages of one keyword the remote API can fill; later pages are empty
MaxPages == 2

(***************************************************************************)
(* Program constants.                                                      *)
(***************************************************************************)
\* queue.get(timeout=60), in seconds
IdleTimeout == 60
\* time.sleep(1.5) between two starts, in milliseconds
LaunchDelay == 1500
\* the end-of-stream marker "STOP", in the shape of a queue item
STOP == [task |-> 0, keyword |-> "STOP", title |-> "", page |-> 0, item |-> 0]
\* the header line of the artifact (the ten field names, in order)
fieldnames ==
    <<"provider", "keyword", "title", "place", "salary", "experience",
      "education", "companytype", "industry", "description">>
\* a file that does not exist; a file holds a header line and rows
NoFile == [exists |-> FALSE, header |-> <<>>, rows |-> <<>>]
\* the artifact or preview an earlier run left behind: the header, no rows
OldFile == [exists |-> TRUE, header |-> fieldnames, rows |-> <<>>]
\* no preview file; a preview holds the text written to it, as a sequence of
\* pieces: tags and the strings put between them
NoHtml == [exists |-> FALSE, content |-> <<>>]
\* conf.ini as parsed: the section "citycode" with the code of each city
ConfIni ==
    [s \in {"citycode"} |->
        [c \in {"Beijing", "Shanghai"} |->
            IF c = "Beijing" THEN "010000" ELSE "020000"]]
\* the built-in lists used when the caller gives none (their first entries)
DEFAULT_CITIES == <<"Beijing", "Shanghai">>
DEFAULT_JOBS == <<"Java">>

VARIABLES
    param,      \* dict_parameter handed to main / run_crawl_once
    mpc,        \* main: "start", "batch", "returned", "raised"
    lpc,        \* run_crawl_once: position of the launcher; "raised" after a
                \* task's exception left it, "io_error" after an OSError did
    li,         \* run_crawl_once: index of the task being started / joined
    w,          \* per task: the spider and its session (SpiderProcess / run_single_task)
    emitted,    \* per task: the records the spider has put, in order (history)
    fetched,    \* per task: the sizes of the pages the API returned (history)
    q,          \* the multiprocessing Queue of the batch
    wr,         \* the WriterProcess: pc and the reason it left its loop
    csv,        \* data/qcwy.csv: NoFile or its header and rows
    html,       \* static/html/data.html: NoFile or its table
    nWriters,   \* WriterProcesses started in this batch (history)
    stopPuts,   \* "STOP" puts of this batch (history)
    config,     \* the parsed conf.ini: its sections, each a name -> value table
    srv,        \* the web server: the threads get_spider has started
    sched,      \* main's clock, in minutes, and what its loop did (history)
    clk         \* the writer's clock, in seconds, and (launch) the time the
                \* launcher has slept in its start loop, in milliseconds

vars == <<param, mpc, lpc, li, w, emitted, fetched, q, wr, csv, html,
          nWriters, stopPuts, config, srv, sched, clk>>

(***************************************************************************)
(* Task set: city-major, job-minor product of the effective lists.         *)
(***************************************************************************)
city_list == IF param.city # <<>> THEN param.city ELSE DEFAULT_CITIES
job_list == IF param.job # <<>> THEN param.job ELSE DEFAULT_JOBS
limit_per_task == param.limit
use_concurrent == param.concurrent

\* a dict_parameter without the "timer" key
NoTimer == [absent |-> TRUE]
\* timer_settings = dict_parameter.get("timer", {"enable": False})
timer_settings ==
    IF param.timer = NoTimer THEN [enable |-> FALSE] ELSE param.timer

NTasks == Len(city_list) * Len(job_list)
TaskIds == 1..NTasks
TaskCity(i) == city_list[((i - 1) \div Len(job_list)) + 1]
\* a task numbering that never moves on from the first keyword
TaskJob_first(i) == job_list[1]

TaskJob(i) == job_list[((i - 1) % Len(job_list)) + 1]

\* a spider that has not been started.  driver is the state of the session
\* its wrapper created, session the session its Job51Spider fetches through
\* (sessions are named by the wrapper that created them, 0 is none), quits
\* the calls of process_driver.quit(), fetches the calls of request_json and
\* last the outcome of the latest of them, starts the times the launcher
\* started the task and startedAt the launcher's clock at p.start() (history)
NewSpider ==
    [pc |-> "idle", driver |-> "none", count |-> 0, page |-> 0,
     njobs |-> 0, j |-> 0, status |-> "none", session |-> 0, quits |-> 0,
     fetches |-> 0, last |-> "none", starts |-> 0, startedAt |-> -1,
     city_code |-> "none"]

(***************************************************************************)
(* job.get("jobName") of entry j of page p, as the remote site returns it: *)
(* the second entry of the first page has a title that contains markup.    *)
(***************************************************************************)
jobName(p, j) == IF p = 1 /\ j = 2 THEN "<tr>" ELSE "Engineer"

(***************************************************************************)
(* The record one API entry is mapped to: entry j of page p of task i.     *)
(* keyword and title are two of its ten fields; task, page and item name   *)
(* the entry it was made from.                                             *)
(***************************************************************************)
Result(i, p, j) ==
    [task |-> i, keyword |-> TaskJob(i), title |-> jobName(p, j),
     page |-> p, item |-> j]


(***************************************************************************)
(* The remote search API as seen through request_json: what one fetch of   *)
(* page p can give.  "items" carries n entries; "missing" is a JSON object *)
(* without the resultbody/job/items keys; "error" is {'error': ...};       *)
(* "malformed" is a value on which the key lookups raise; "raise" is       *)
(* execute_async_script raising (script timeout, dead session).            *)
(***************************************************************************)
request_json(p) ==
    {[kind |-> k, n |-> 0] : k \in {"error", "missing", "malformed", "raise"}}
    \cup {[kind |-> "items", n |-> n] :
             n \in 0..(IF p <= MaxPages THEN MaxPageSize ELSE 0)}

\* jobs = data.get("resultbody", {}).get("job", {}).get("items", [])
JobsOf(resp) == IF resp.kind = "items" THEN resp.n ELSE 0

\* a put that places the item in front of the queue
QueuePut_front(queue, item) == <<item>> \o queue

\* Queue.put: the item goes behind everything put before it
QueuePut(queue, item) == Append(queue, item)

\* a paging loop that never checks the limit before fetching
LimitReached_never(count, limit) == FALSE

\* a test that lets a task at its limit go on to one more fetch
LimitReached_strict(count, limit) == count > limit

\* `if self.count >= self.limit` at the top of the paging loop
LimitReached(count, limit) == count >= limit

\* a loop over a page's entries that never checks the limit
InnerBreak_never(count, limit) == FALSE

\* `if self.count >= self.limit: break` inside the loop over a page's entries
InnerBreak(count, limit) == count >= limit

(***************************************************************************)
(* Initial state: main has been called with param and has done nothing.    *)
(***************************************************************************)
\* the city and job lists a caller passes; <<>> is a missing or empty list
CityLists == {<<>>, <<"Beijing">>, <<"Beijing", "Atlantis", "Shanghai">>}
JobLists == {<<>>, <<"Java", "Go">>}

\* the number of tasks of city list c and job list j
TaskCount(c, j) ==
    Len(IF c # <<>> THEN c ELSE DEFAULT_CITIES)
    * Len(IF j # <<>> THEN j ELSE DEFAULT_JOBS)

\* the callers' parameters explored: at most three tasks, or four serial
\* tasks (two cities by two jobs); batches of several tasks with at most six
\* records between their tasks, four-task or concurrent batches with at
\* most four; one-task calls also without the "timer" key
Params ==
    {p \in [city : CityLists, job : JobLists, limit : 0..MaxLimit,
            concurrent : BOOLEAN, timer : {[enable |-> FALSE]}] :
        /\ TaskCount(p.city, p.job) <= 4
        /\ TaskCount(p.city, p.job) = 4 => ~p.concurrent
        /\ TaskCount(p.city, p.job) > 1
              => TaskCount(p.city, p.job) * p.limit <= 6
        /\ (p.concurrent \/ TaskCount(p.city, p.job) = 4)
              => TaskCount(p.city, p.job) * p.limit <= 4}
    \cup [city : {<<"Beijing">>}, job : {<<>>}, limit : {1},
          concurrent : BOOLEAN, timer : {NoTimer}]

\* a writer that has not been started; got is what queue.get has returned to
\* it, in order (history)
NewWriter == [pc |-> "new", exit |-> "none", got |-> <<>>]

\* the concatenation of the sequences of ss
RECURSIVE Cat(_)
Cat(ss) == IF ss = <<>> THEN <<>> ELSE Head(ss) \o Cat(Tail(ss))

\* the cells csv.reader returns for a row of the artifact (of the ten, the
\* two the records of this model carry)
Cells(r) == <<r.keyword, r.title>>

\* html_content.append(f'<th>{header}</th>') for every header
HeaderHtml(headers) ==
    Cat([n \in 1..Len(headers) |-> <<"<th>", headers[n], "</th>">>])

\* '<tr>', f'<td>{cell}</td>' for every cell of the row, '</tr>': the cell
\* is put between the tags as it is
RowHtml(row) ==
    <<"<tr>">>
    \o Cat([n \in 1..Len(row) |-> <<"<td>", row[n], "</td>">>])
    \o <<"</tr>">>

\* a renderer without the fallback: a missing or empty artifact gives a table
\* without headers
generate_html_from_csv_nofallback(file) ==
    LET missing == ~file.exists \/ file.header = <<>>
        headers == IF missing THEN <<>> ELSE file.header
        rows == IF missing THEN <<>>
                ELSE [n \in 1..Len(file.rows) |-> Cells(file.rows[n])]
    IN  [exists |-> TRUE,
         content |->
             <<"<table>", "<thead>", "<tr>">>
             \o HeaderHtml(headers)
             \o <<"</tr>", "</thead>", "<tbody>">>
             \o Cat([n \in 1..Len(rows) |-> RowHtml(rows[n])])
             \o <<"</tbody>", "</table>">>]

(***************************************************************************)
(* generate_html_from_csv: headers is the first line of the artifact and   *)
(* rows the lines after it; a missing file (FileNotFoundError) or a file   *)
(* without a first line (StopIteration) gives the fixed headers and no     *)
(* rows.  The preview is the table built from them.                        *)
(***************************************************************************)
generate_html_from_csv(file) ==
    LET missing == ~file.exists \/ file.header = <<>>
        headers == IF missing THEN fieldnames ELSE file.header
        rows == IF missing THEN <<>>
                ELSE [n \in 1..Len(file.rows) |-> Cells(file.rows[n])]
    IN  [exists |-> TRUE,
         content |->
             <<"<table>", "<thead>", "<tr>">>
             \o HeaderHtml(headers)
             \o <<"</tr>", "</thead>", "<tbody>">>
             \o Cat([n \in 1..Len(rows) |-> RowHtml(rows[n])])
             \o <<"</tbody>", "</table>">>]

\* the preview an earlier run left behind
OldHtml == generate_html_from_csv(OldFile)

\* the most crawl requests posted to the web server
MaxRequests == 2

\* a thread get_spider has not started yet: pc is where its main is, writer
\* the WriterProcess of its batch
NewThread == [pc |-> "none", writer |-> "none"]

\* a web server that has not been posted a crawl request; removed tells
\* whether a batch has removed the artifact while the writer of another
\* batch had it open (history)
NewServer == [thread |-> [t \in 1..MaxRequests |-> NewThread], removed |-> FALSE]

InitBatchState ==
    /\ srv = NewServer
    /\ lpc = "idle"
    /\ li = 0
    /\ w = [i \in TaskIds |-> NewSpider]
    /\ emitted = [i \in TaskIds |-> <<>>]
    /\ fetched = [i \in TaskIds |-> <<>>]
    /\ q = <<>>
    /\ wr = NewWriter
    /\ \/ csv = NoFile /\ html = NoHtml
       \/ csv = OldFile /\ html = OldHtml
    /\ nWriters = 0
    /\ stopPuts = 0
    /\ clk = [idle |-> 0, busy |-> 0, since |-> 0, ahead |-> 0, launch |-> 0]

\* no tick evaluated yet
NoTick == [at |-> -1, started |-> FALSE]

\* main's clock and history: the minute it is, the calls of run_crawl_once
\* so far, when the last one returned and the rows its artifact had then,
\* the last evaluation of the window
NewSched(t) ==
    [now |-> t, batches |-> 0, lastFinish |-> -1, lastRows |-> -1,
     lastTick |-> NoTick]

Init ==
    /\ param \in Params
    /\ config = ConfIni
    /\ mpc = "start"
    /\ sched = NewSched(0)
    /\ InitBatchState

(***************************************************************************)
(* SpiderProcess.run / run_single_task: the wrapper around one task.       *)
(***************************************************************************)
\* the exception of a task's wrapper leaves run_single_task (serial mode only)
Propagate ==
    /\ lpc' = "raised"
    /\ mpc' = "raised"

\* a spider built on the session of the first task's wrapper
SpiderDriver_shared(i) == 1

\* Job51Spider(city, job, city_code, queue, process_driver, limit): the
\* session handed to the spider is the one this wrapper has just created
SpiderDriver(i) == i

\* a lookup without the except clause: the error of an unknown city gets out
get_city_code_noexcept(city_name) ==
    IF "citycode" \in DOMAIN config
    THEN IF city_name \in DOMAIN config["citycode"]
         THEN config["citycode"][city_name]
         ELSE "NoOptionError"
    ELSE "NoSectionError"

(***************************************************************************)
(* get_city_code: config.get('citycode', city_name); NoSectionError and    *)
(* NoOptionError are caught and give the nationwide code.                  *)
(***************************************************************************)
get_city_code(city_name) ==
    IF "citycode" \in DOMAIN config
    THEN IF city_name \in DOMAIN config["citycode"]
         THEN config["citycode"][city_name]
         ELSE "000000"
    ELSE "000000"

\* a wrapper whose cleanup is skipped when the scrape raises
AfterException_noFinally == "exited"

\* except Exception: print; then the finally block
AfterException == "quit"

\* try: webdriver.Chrome(...); get_city_code; Job51Spider(...); run(): driver.get
DriverCreate(i) ==
    /\ w[i].pc = "init"
    /\ \/ \* webdriver.Chrome raises: except logs, finally finds no driver
          w' = [w EXCEPT ![i].pc = "exited", ![i].status = "Exception"]
       \/ \* the session exists, driver.get raises: except logs, then finally
          w' = [w EXCEPT ![i].pc = AfterException, ![i].driver = "open",
                         ![i].session = SpiderDriver(i),
                         ![i].city_code = get_city_code(TaskCity(i)),
                         ![i].status = "Exception"]
       \/ \* the session exists and the search page loaded: page = 1
          w' = [w EXCEPT ![i].pc = "loop", ![i].driver = "open",
                         ![i].session = SpiderDriver(i),
                         ![i].city_code = get_city_code(TaskCity(i)),
                         ![i].page = 1]
    /\ UNCHANGED <<param, config, srv, sched, clk, mpc, lpc, li, emitted, fetched, q, wr, csv, html,
                   nWriters, stopPuts>>

\* the outcome of a fetch as the loop sees it: "jobs" when it came to a jobs
\* list (empty or not), else the kind of the response
Outcome(resp) ==
    IF resp.kind \in {"items", "missing"} THEN "jobs" ELSE resp.kind

\* a loop that tests the page for emptiness before it tests for the error
AfterFetch_emptyFirst(resp) ==
    IF resp.kind \in {"raise", "malformed"} THEN "Exception"
    ELSE IF JobsOf(resp) = 0 THEN "Exhausted"
    ELSE IF resp.kind = "error" THEN "FetchError"
    ELSE "none"

\* what the loop does with the response of a fetch, test by test:
\* execute_async_script raised; `"error" in data`; the key lookups raise on a
\* malformed value; `not jobs`; otherwise the entries are gone through
AfterFetch(resp) ==
    IF resp.kind \in {"raise", "malformed"} THEN "Exception"
    ELSE IF resp.kind = "error" THEN "FetchError"
    ELSE IF JobsOf(resp) = 0 THEN "Exhausted"
    ELSE "none"

\* a paging loop that asks for the same page again
NextPage_same(page) == page

\* `page += 1` at the end of a turn of `while True`
NextPage(page) == page + 1

\* one turn of `while True` up to the loop over the page's entries
SpiderLoop(i) ==
    /\ w[i].pc = "loop"
    /\ IF LimitReached(w[i].count, limit_per_task)
       THEN /\ w' = [w EXCEPT ![i].pc = "quit", ![i].status = "LimitReached"]
            /\ UNCHANGED fetched
       ELSE \E resp \in request_json(w[i].page) :
              LET st == AfterFetch(resp)
                  f == [w[i] EXCEPT !.fetches = @ + 1, !.last = Outcome(resp)]
              IN CASE st = "Exception" ->
                        /\ w' = [w EXCEPT ![i] = [f EXCEPT
                                                    !.pc = AfterException,
                                                    !.status = st]]
                        /\ UNCHANGED fetched
                   [] st = "FetchError" ->
                        /\ w' = [w EXCEPT ![i] = [f EXCEPT !.pc = "quit",
                                                           !.status = st]]
                        /\ UNCHANGED fetched
                   [] st = "Exhausted" ->
                        /\ w' = [w EXCEPT ![i] = [f EXCEPT !.pc = "quit",
                                                           !.status = st]]
                        /\ fetched' = [fetched EXCEPT
                                         ![i] = Append(@, JobsOf(resp))]
                   [] OTHER ->
                        /\ fetched' = [fetched EXCEPT
                                         ![i] = Append(@, JobsOf(resp))]
                        /\ IF InnerBreak(w[i].count, limit_per_task)
                           THEN w' = [w EXCEPT ![i] = [f EXCEPT
                                                         !.page = NextPage(@)]]
                           ELSE w' = [w EXCEPT ![i] = [f EXCEPT
                                                         !.pc = "items",
                                                         !.njobs = JobsOf(resp),
                                                         !.j = 1]]
    /\ UNCHANGED <<param, config, srv, sched, clk, mpc, lpc, li, emitted, q, wr, csv, html,
                   nWriters, stopPuts>>

\* an iteration that takes every other entry of the page
NextJob_skip(j) == j + 2

\* `for job in jobs`: the entry after entry j of the page
NextJob(j) == j + 1

\* a spider that also writes each record to the artifact itself
SpiderItem_writes(i) ==
    /\ w[i].pc = "items"
    /\ LET r == Result(i, w[i].page, w[i].j)
           c == w[i].count + 1
           last == NextJob(w[i].j) > w[i].njobs \/ InnerBreak(c, limit_per_task)
       IN /\ q' = QueuePut(q, r)
          /\ csv' = [csv EXCEPT !.rows = Append(@, r)]
          /\ emitted' = [emitted EXCEPT ![i] = Append(@, r)]
          /\ w' = [w EXCEPT ![i].count = c,
                            ![i].j = IF last THEN 0 ELSE NextJob(@),
                            ![i].njobs = IF last THEN 0 ELSE @,
                            ![i].page = IF last THEN NextPage(@) ELSE @,
                            ![i].pc = IF last THEN "loop" ELSE "items"]
    /\ UNCHANGED <<param, config, srv, sched, clk, mpc, lpc, li, fetched, wr, html,
                   nWriters, stopPuts>>

\* one turn of `for job in jobs`: put the record, count it; after the last
\* kept entry of the page: page += 1 and back to the top of `while True`
SpiderItem(i) ==
    /\ w[i].pc = "items"
    /\ LET r == Result(i, w[i].page, w[i].j)
           c == w[i].count + 1
           last == NextJob(w[i].j) > w[i].njobs \/ InnerBreak(c, limit_per_task)
       IN /\ q' = QueuePut(q, r)
          /\ emitted' = [emitted EXCEPT ![i] = Append(@, r)]
          /\ w' = [w EXCEPT ![i].count = c,
                            ![i].j = IF last THEN 0 ELSE NextJob(@),
                            ![i].njobs = IF last THEN 0 ELSE @,
                            ![i].page = IF last THEN NextPage(@) ELSE @,
                            ![i].pc = IF last THEN "loop" ELSE "items"]
    /\ UNCHANGED <<param, config, srv, sched, clk, mpc, lpc, li, fetched, wr, csv, html,
                   nWriters, stopPuts>>

\* an OSError of a file operation of run_crawl_once leaves run_crawl_once and,
\* as main calls it outside any try, main
ArtifactIOError ==
    /\ lpc' = "io_error"
    /\ mpc' = "raised"

\* q = Queue(): a put appends to a buffer of the putting process, and a
\* thread of that process feeds the buffer to the queue's pipe, where it
\* waits while the pipe is full.  The records of task i are sure to be all
\* in the pipe when none of them is behind the PipeCapacity items still
\* unread; behind those, whether they fit depends on the records' sizes.
FeederFlushed(i) ==
    \A n \in 1..Len(q) : q[n].task = i => n <= PipeCapacity

\* a process that leaves without waiting for its feeder thread
AfterRun_nojoin(i) == {"exited"}

\* where SpiderProcess.run's return can leave the task: a process that has
\* put on the queue joins its feeder thread before it exits ("exiting" while
\* that thread waits for the pipe); the serial call just returns
AfterRun(i) ==
    IF use_concurrent /\ ~FeederFlushed(i) THEN {"exiting", "exited"}
    ELSE {"exited"}

\* the pipe has taken the last buffered record of the process: it exits
ProcessExit(i) ==
    /\ w[i].pc = "exiting"
    /\ FeederFlushed(i)
    /\ w' = [w EXCEPT ![i].pc = "exited"]
    /\ UNCHANGED <<param, config, srv, sched, clk, mpc, lpc, li, emitted, fetched,
                   q, wr, csv, html, nWriters, stopPuts>>

\* finally: process_driver.quit(); it returns, or it raises ("quit_raised":
\* the one call was made, what is left of the browser is Selenium's affair)
DriverQuit(i) ==
    /\ w[i].pc = "quit"
    /\ \E after \in AfterRun(i) :
          \/ /\ w' = [w EXCEPT ![i].pc = after, ![i].driver = "closed",
                                ![i].quits = @ + 1]
             /\ UNCHANGED <<mpc, lpc>>
          \/ /\ w' = [w EXCEPT ![i].pc = after, ![i].driver = "quit_raised",
                                ![i].quits = @ + 1]
             /\ IF use_concurrent THEN UNCHANGED <<mpc, lpc>> ELSE Propagate
    /\ UNCHANGED <<param, config, srv, sched, clk, li, emitted, fetched, q, wr, csv, html,
                   nWriters, stopPuts>>

(***************************************************************************)
(* WriterProcess.run                                                       *)
(***************************************************************************)
\* makedirs; open(filename, "w"); writeheader
WriterOpenFile ==
    /\ wr.pc = "open"
    /\ csv' = [exists |-> TRUE, header |-> fieldnames, rows |-> <<>>]
    /\ wr' = [wr EXCEPT !.pc = "loop"]
    /\ UNCHANGED <<param, config, srv, sched, mpc, lpc, li, w, emitted, fetched, q, html,
                   nWriters, stopPuts>>

WriterOpen == WriterOpenFile /\ UNCHANGED clk

\* a writer that takes "STOP" for a row
WriterItem_nostop(item) ==
    /\ csv' = [csv EXCEPT !.rows = Append(@, item)]
    /\ wr' = [wr EXCEPT !.got = Append(@, item)]

\* a writer that opens the file anew for every row
WriterItem_reopen(item) ==
    IF item = STOP
    THEN /\ wr' = [wr EXCEPT !.pc = "done", !.exit = "stop",
                             !.got = Append(@, item)]
         /\ UNCHANGED csv
    ELSE /\ csv' = [csv EXCEPT !.rows = <<item>>]
         /\ wr' = [wr EXCEPT !.got = Append(@, item)]

\* item = queue.get(timeout=60) gave an item: "STOP" ends the loop, anything
\* else is written as one row
WriterItem(item) ==
    IF item = STOP
    THEN /\ wr' = [wr EXCEPT !.pc = "done", !.exit = "stop",
                             !.got = Append(@, item)]
         /\ UNCHANGED csv
    ELSE /\ csv' = [csv EXCEPT !.rows = Append(@, item)]
         /\ wr' = [wr EXCEPT !.got = Append(@, item)]

WriterPop ==
    /\ wr.pc = "loop"
    /\ q # <<>>
    /\ q' = Tail(q)
    /\ WriterItem(Head(q))
    /\ UNCHANGED <<param, config, srv, sched, mpc, lpc, li, w, emitted, fetched, html,
                   nWriters, stopPuts>>

\* a queue.get() without timeout: it never raises queue.Empty
WriterEmpty_never ==
    /\ FALSE
    /\ UNCHANGED vars

\* queue.get raised queue.Empty: nothing arrived for the whole timeout
WriterEmpty ==
    /\ wr.pc = "loop"
    /\ q = <<>>
    /\ wr' = [wr EXCEPT !.pc = "done", !.exit = "timeout"]
    /\ UNCHANGED <<param, config, srv, sched, mpc, lpc, li, w, emitted, fetched, q, csv, html,
                   nWriters, stopPuts>>

\* the two, with the time the timeout takes left open: whenever the queue is
\* empty, the timeout may have run out
WriterGet == WriterPop /\ UNCHANGED clk

WriterTimeout == WriterEmpty /\ UNCHANGED clk

(***************************************************************************)
(* run_crawl_once                                                          *)
(***************************************************************************)
\* a batch that goes on with the queue of the batch before it
Queue_reused == q

\* q = Queue(): a new queue, with nothing in it
Queue == <<>>

\* steps 1-4: lists, parameters, remove the old files, q = Queue(),
\* writer = WriterProcess(q); writer.start()
CrawlBegin ==
    /\ lpc = "begin"
    /\ \/ /\ csv' = NoFile
          /\ html' = NoHtml
          /\ q' = Queue
          /\ wr' = [NewWriter EXCEPT !.pc = "open"]
          /\ nWriters' = 1
          /\ stopPuts' = 0
          /\ w' = [i \in TaskIds |-> NewSpider]
          /\ emitted' = [i \in TaskIds |-> <<>>]
          /\ fetched' = [i \in TaskIds |-> <<>>]
          /\ li' = 1
          /\ lpc' = IF use_concurrent THEN "launch" ELSE "serial"
          /\ clk' = [clk EXCEPT !.launch = 0]
          /\ UNCHANGED mpc
       \/ \* os.remove raises on the old artifact, or on the old preview after
          \* the artifact was removed: nothing of the batch is started
          /\ \E f \in {"csv", "html"} :
                \/ f = "csv" /\ csv.exists /\ UNCHANGED csv
                \/ f = "html" /\ html.exists /\ csv' = NoFile
          /\ ArtifactIOError
          /\ UNCHANGED <<html, q, wr, nWriters, stopPuts, w, emitted, fetched,
                         li, clk>>
    /\ UNCHANGED <<param, config, srv, sched>>

\* a start loop without the sleep
Launch_nosleep ==
    /\ lpc = "launch"
    /\ w' = [w EXCEPT ![li].pc = "init", ![li].starts = @ + 1,
                      ![li].startedAt = clk.launch]
    /\ IF li < NTasks
       THEN li' = li + 1 /\ UNCHANGED lpc
       ELSE li' = 1 /\ lpc' = "join"
    /\ UNCHANGED <<param, config, srv, sched, clk, mpc, emitted, fetched, q, wr, csv, html,
                   nWriters, stopPuts>>

\* concurrent: p = SpiderProcess(...); processes.append(p); p.start();
\* time.sleep(1.5); after the last task the join loop is next
Launch ==
    /\ lpc = "launch"
    /\ w' = [w EXCEPT ![li].pc = "init", ![li].starts = @ + 1,
                      ![li].startedAt = clk.launch]
    /\ clk' = [clk EXCEPT !.launch = @ + LaunchDelay]
    /\ IF li < NTasks
       THEN li' = li + 1 /\ UNCHANGED lpc
       ELSE li' = 1 /\ lpc' = "join"
    /\ UNCHANGED <<param, config, srv, sched, mpc, emitted, fetched, q, wr, csv, html,
                   nWriters, stopPuts>>

\* a join loop with a timeout that terminates a process still running
Join_reap ==
    /\ lpc = "join"
    /\ w' = [w EXCEPT ![li].pc = "exited"]
    /\ IF li < NTasks
       THEN li' = li + 1 /\ UNCHANGED lpc
       ELSE li' = 0 /\ lpc' = "put_stop"
    /\ UNCHANGED <<param, config, srv, sched, clk, mpc, emitted, fetched, q, wr, csv, html,
                   nWriters, stopPuts>>

\* a join loop that does not wait for the process to exit
Join_nowait ==
    /\ lpc = "join"
    /\ IF li < NTasks
       THEN li' = li + 1 /\ UNCHANGED lpc
       ELSE li' = 0 /\ lpc' = "put_stop"
    /\ UNCHANGED <<param, config, srv, sched, clk, mpc, w, emitted, fetched, q, wr, csv, html,
                   nWriters, stopPuts>>

\* concurrent: for p in processes: p.join()
Join ==
    /\ lpc = "join"
    /\ w[li].pc = "exited"
    /\ IF li < NTasks
       THEN li' = li + 1 /\ UNCHANGED lpc
       ELSE li' = 0 /\ lpc' = "put_stop"
    /\ UNCHANGED <<param, config, srv, sched, clk, mpc, w, emitted, fetched, q, wr, csv, html,
                   nWriters, stopPuts>>

\* serial: run_single_task(city, job, q, limit_per_task) is entered
SerialCall ==
    /\ lpc = "serial"
    /\ w[li].pc = "idle"
    /\ w' = [w EXCEPT ![li].pc = "init", ![li].starts = @ + 1]
    /\ UNCHANGED <<param, config, srv, sched, clk, mpc, lpc, li, emitted, fetched, q, wr, csv, html,
                   nWriters, stopPuts>>

\* a serial loop that goes on to the next task without waiting for the call
\* to return
SerialReturn_nowait ==
    /\ lpc = "serial"
    /\ w[li].pc # "idle"
    /\ IF li < NTasks
       THEN li' = li + 1 /\ UNCHANGED lpc
       ELSE li' = 0 /\ lpc' = "put_stop"
    /\ UNCHANGED <<param, config, srv, sched, clk, mpc, w, emitted, fetched, q, wr, csv, html,
                   nWriters, stopPuts>>

\* serial: run_single_task returned; next task of the nested loops
SerialReturn ==
    /\ lpc = "serial"
    /\ w[li].pc = "exited"
    /\ IF li < NTasks
       THEN li' = li + 1 /\ UNCHANGED lpc
       ELSE li' = 0 /\ lpc' = "put_stop"
    /\ UNCHANGED <<param, config, srv, sched, clk, mpc, w, emitted, fetched, q, wr, csv, html,
                   nWriters, stopPuts>>

\* a sentinel that is put at the front of the queue
PutStopItem_front ==
    /\ lpc = "put_stop"
    /\ q' = <<STOP>> \o q
    /\ stopPuts' = stopPuts + 1
    /\ lpc' = "join_writer"
    /\ UNCHANGED <<param, config, srv, sched, mpc, li, w, emitted, fetched, wr, csv, html,
                   nWriters>>

\* q.put("STOP")
PutStopItem ==
    /\ lpc = "put_stop"
    /\ q' = QueuePut(q, STOP)
    /\ stopPuts' = stopPuts + 1
    /\ lpc' = "join_writer"
    /\ UNCHANGED <<param, config, srv, sched, mpc, li, w, emitted, fetched, wr, csv, html,
                   nWriters>>

PutStop == PutStopItem /\ UNCHANGED clk

\* writer.join(); generate_html_from_csv(csv_file, html_file)
JoinWriterAndRender ==
    /\ lpc = "join_writer"
    /\ wr.pc = "done"
    /\ \/ /\ html' = generate_html_from_csv(csv)
          /\ lpc' = "done"
          /\ UNCHANGED mpc
       \/ \* open(html_file, 'w') raises: no preview is written
          /\ ArtifactIOError
          /\ UNCHANGED html
    /\ UNCHANGED <<param, config, srv, sched, clk, li, w, emitted, fetched, q, wr, csv,
                   nWriters, stopPuts>>

(***************************************************************************)
(* main with the timer disabled: one batch, then return.                   *)
(***************************************************************************)
MainOnce ==
    /\ mpc = "start"
    /\ ~timer_settings.enable
    /\ mpc' = "batch"
    /\ lpc' = "begin"
    /\ sched' = [sched EXCEPT !.batches = @ + 1]
    /\ UNCHANGED <<param, config, srv, clk, li, w, emitted, fetched, q, wr, csv, html,
                   nWriters, stopPuts>>

\* a main that goes back to its beginning after the batch
MainReturn_again ==
    /\ mpc = "batch"
    /\ ~timer_settings.enable
    /\ lpc = "done"
    /\ mpc' = "start"
    /\ UNCHANGED <<param, config, srv, sched, clk, lpc, li, w, emitted, fetched, q, wr, csv, html,
                   nWriters, stopPuts>>

\* run_crawl_once returned: print, return
MainReturn ==
    /\ mpc = "batch"
    /\ ~timer_settings.enable
    /\ lpc = "done"
    /\ mpc' = "returned"
    /\ UNCHANGED <<param, config, srv, sched, clk, lpc, li, w, emitted, fetched, q, wr, csv, html,
                   nWriters, stopPuts>>

(***************************************************************************)
(* main with the timer enabled: the polling loop.  sched.now is the wall   *)
(* clock in whole minutes since midnight of the first day.                 *)
(***************************************************************************)
MinutesPerDay == 24 * 60

\* now.replace(hour=h, minute=m, second=0, microsecond=0): same date as t
Replace(t, h, m) == (t \div MinutesPerDay) * MinutesPerDay + h * 60 + m

\* a window test that takes the end minute in
InWindow_endInclusive(t) ==
    LET ts == timer_settings
    IN /\ Replace(t, ts.begin_hour, ts.begin_minute) <= t
       /\ t <= Replace(t, ts.end_hour, ts.end_minute)

\* a window test that takes a window whose end is not after its beginning
\* to run over midnight
InWindow_overMidnight(t) ==
    LET ts == timer_settings
        b == Replace(t, ts.begin_hour, ts.begin_minute)
        e == Replace(t, ts.end_hour, ts.end_minute)
    IN IF b < e THEN b <= t /\ t < e ELSE b <= t \/ t < e

\* begin_time <= now < end_time
InWindow(t) ==
    LET ts == timer_settings
    IN /\ Replace(t, ts.begin_hour, ts.begin_minute) <= t
       /\ t < Replace(t, ts.end_hour, ts.end_minute)

\* time.sleep(60), in minutes
PollSleep == 1

\* a post-batch sleep of the poll cadence instead of the interval
IntervalSleep_poll == PollSleep

\* time.sleep(interval_minutes * 60), in minutes
IntervalSleep == timer_settings.interval

\* the timer is enabled: read the settings, enter `while True`
MainLoopStart ==
    /\ mpc = "start"
    /\ timer_settings.enable
    /\ mpc' = "tick"
    /\ UNCHANGED <<param, config, srv, sched, clk, lpc, li, w, emitted, fetched, q, wr,
                   csv, html, nWriters, stopPuts>>

\* a loop whose turns are exactly a minute apart
PollLate_never == {0}

\* time.sleep(60) suspends for at least 60 seconds and a turn of the loop
\* takes time of its own, so two evaluations are more than a minute apart:
\* counted in whole minutes of the clock, the next evaluation is in the
\* next minute or, when the seconds carry over, in the one after it
PollLate == {0, 1}

\* one turn of `while True` up to the branch: inside the window
\* run_crawl_once is entered, outside it the loop sleeps a minute
MainTick ==
    /\ mpc = "tick"
    /\ IF InWindow(sched.now)
       THEN /\ mpc' = "batch"
            /\ lpc' = "begin"
            /\ sched' = [sched EXCEPT
                            !.lastTick = [at |-> sched.now, started |-> TRUE],
                            !.batches = @ + 1]
       ELSE /\ \E late \in PollLate :
                  /\ sched.now + PollSleep + late <= MaxNow
                  /\ sched' = [sched EXCEPT
                                  !.lastTick = [at |-> sched.now,
                                                started |-> FALSE],
                                  !.now = @ + PollSleep + late]
            /\ UNCHANGED <<mpc, lpc>>
    /\ UNCHANGED <<param, config, srv, clk, li, w, emitted, fetched, q, wr, csv, html,
                   nWriters, stopPuts>>

\* run_crawl_once returned, d minutes after it was entered
MainBatchDone ==
    /\ mpc = "batch"
    /\ timer_settings.enable
    /\ lpc = "done"
    /\ \E d \in {0, MaxBatchMinutes} :
          /\ sched.now + d <= MaxNow
          /\ sched' = [sched EXCEPT !.now = @ + d,
                                    !.lastFinish = sched.now + d,
                                    !.lastRows = Len(csv.rows),
                                    !.lastTick = NoTick]
    /\ mpc' = "sleep"
    /\ UNCHANGED <<param, config, srv, clk, lpc, li, w, emitted, fetched, q, wr, csv,
                   html, nWriters, stopPuts>>

\* time.sleep(interval_minutes * 60), then the next turn of the loop
MainSleep ==
    /\ mpc = "sleep"
    /\ sched.now + IntervalSleep <= MaxNow
    /\ sched' = [sched EXCEPT !.now = @ + IntervalSleep]
    /\ mpc' = "tick"
    /\ UNCHANGED <<param, config, srv, clk, lpc, li, w, emitted, fetched, q, wr, csv,
                   html, nWriters, stopPuts>>

Next ==
    \/ MainOnce
    \/ MainReturn
    \/ CrawlBegin
    \/ Launch
    \/ Join
    \/ SerialCall
    \/ SerialReturn
    \/ PutStop
    \/ JoinWriterAndRender
    \/ WriterOpen
    \/ WriterGet
    \/ WriterTimeout
    \/ \E i \in TaskIds : DriverCreate(i)
    \/ \E i \in TaskIds : SpiderLoop(i)
    \/ \E i \in TaskIds : SpiderItem(i)
    \/ \E i \in TaskIds : DriverQuit(i)
    \/ \E i \in TaskIds : ProcessExit(i)

Spec == Init /\ [][Next]_vars

(***************************************************************************)
(* The writer against the clock.  clk.idle is how long the pending         *)
(* queue.get has waited on an empty queue, clk.busy whether a tick has     *)
(* passed in the writer's current step, clk.since the time since "STOP"    *)
(* was put while the writer runs, clk.ahead the items that were in the     *)
(* queue when "STOP" was put.  The writer needs at most one tick to open   *)
(* its file and at most one tick to take and write an item that is there;  *)
(* spiders and launcher take any time.                                     *)
(***************************************************************************)
WriterWaiting == wr.pc = "loop" /\ q = <<>>

WriterServing == wr.pc = "open" \/ (wr.pc = "loop" /\ q # <<>>)

\* TickLen seconds pass, or what is left of the timeout if that is less
Tick ==
    /\ wr.pc \in {"open", "loop"}
    /\ WriterWaiting => clk.idle < IdleTimeout
    /\ WriterServing => clk.busy = 0
    /\ LET d == IF WriterWaiting /\ clk.idle + TickLen > IdleTimeout
                THEN IdleTimeout - clk.idle
                ELSE TickLen
       IN clk' = [clk EXCEPT
                    !.idle = IF WriterWaiting THEN @ + d ELSE @,
                    !.busy = IF WriterServing THEN 1 ELSE @,
                    !.since = IF stopPuts = 1 THEN @ + d ELSE @]
    /\ UNCHANGED <<param, config, srv, sched, mpc, lpc, li, w, emitted, fetched, q, wr,
                   csv, html, nWriters, stopPuts>>

TimedWriterOpen ==
    /\ WriterOpenFile
    /\ clk' = [clk EXCEPT !.idle = 0, !.busy = 0]

\* queue.get(timeout=60) returns an item
TimedWriterGet ==
    /\ WriterPop
    /\ clk' = [clk EXCEPT !.idle = 0, !.busy = 0]

\* queue.get(timeout=60) raises queue.Empty after 60 seconds without an item
TimedWriterTimeout ==
    /\ clk.idle >= IdleTimeout
    /\ WriterEmpty
    /\ UNCHANGED clk

TimedPutStop ==
    /\ PutStopItem
    /\ clk' = [clk EXCEPT !.ahead = Len(q), !.since = 0]

\* the parameters explored against the clock
TimedParams ==
    [city : {<<>>, <<"Beijing">>}, job : {<<>>}, limit : 0..1,
     concurrent : BOOLEAN, timer : {[enable |-> FALSE]}]

TimedInit ==
    /\ param \in TimedParams
    /\ config = ConfIni
    /\ mpc = "start"
    /\ sched = NewSched(0)
    /\ InitBatchState

TimedNext ==
    \/ Tick
    \/ MainOnce
    \/ MainReturn
    \/ CrawlBegin
    \/ Launch
    \/ Join
    \/ SerialCall
    \/ SerialReturn
    \/ TimedPutStop
    \/ JoinWriterAndRender
    \/ TimedWriterOpen
    \/ TimedWriterGet
    \/ TimedWriterTimeout
    \/ \E i \in TaskIds : DriverCreate(i)
    \/ \E i \in TaskIds : SpiderLoop(i)
    \/ \E i \in TaskIds : SpiderItem(i)
    \/ \E i \in TaskIds : DriverQuit(i)
    \/ \E i \in TaskIds : ProcessExit(i)

TimedSpec == TimedInit /\ [][TimedNext]_vars

\* the same with a clock that goes on and a writer process that is scheduled:
\* time passes while the writer runs, and the writer takes its next step
\* (opening the file, taking an item, raising queue.Empty) once it can.
\* Nothing is asked of the spiders and the launcher: any of them may stop
\* for ever at any point.
TimedFairSpec ==
    /\ TimedSpec
    /\ WF_vars(Tick)
    /\ WF_vars(TimedWriterOpen)
    /\ WF_vars(TimedWriterGet)
    /\ WF_vars(TimedWriterTimeout)

(***************************************************************************)
(* The polling loop around batches of one task.                            *)
(***************************************************************************)
\* the timer settings explored: [02:00, 05:00) every 60 minutes, a window
\* of two minutes and one of a single minute just after midnight, every
\* minute, a window whose end is before its beginning and one whose end is
\* its beginning
TimerSettings ==
    {[enable |-> TRUE, begin_hour |-> 2, begin_minute |-> 0,
      end_hour |-> 5, end_minute |-> 0, interval |-> 60],
     [enable |-> TRUE, begin_hour |-> 0, begin_minute |-> 1,
      end_hour |-> 0, end_minute |-> 3, interval |-> 1],
     [enable |-> TRUE, begin_hour |-> 0, begin_minute |-> 1,
      end_hour |-> 0, end_minute |-> 2, interval |-> 1],
     [enable |-> TRUE, begin_hour |-> 5, begin_minute |-> 0,
      end_hour |-> 2, end_minute |-> 0, interval |-> 60],
     [enable |-> TRUE, begin_hour |-> 2, begin_minute |-> 0,
      end_hour |-> 2, end_minute |-> 0, interval |-> 60]}

\* 01:58 and 23:59 of the first day
StartTimes == {118, 1439}

SchedParams ==
    [city : {<<"Beijing">>}, job : {<<>>}, limit : {1},
     concurrent : BOOLEAN, timer : TimerSettings]

SchedInit ==
    /\ param \in SchedParams
    /\ config = ConfIni
    /\ mpc = "start"
    /\ \E t \in StartTimes : sched = NewSched(t)
    /\ InitBatchState

SchedNext ==
    \/ MainLoopStart
    \/ MainTick
    \/ MainBatchDone
    \/ MainSleep
    \/ CrawlBegin
    \/ Launch
    \/ Join
    \/ SerialCall
    \/ SerialReturn
    \/ PutStop
    \/ JoinWriterAndRender
    \/ WriterOpen
    \/ WriterGet
    \/ WriterTimeout
    \/ \E i \in TaskIds : DriverCreate(i)
    \/ \E i \in TaskIds : SpiderLoop(i)
    \/ \E i \in TaskIds : SpiderItem(i)
    \/ \E i \in TaskIds : DriverQuit(i)

SchedSpec == SchedInit /\ [][SchedNext]_vars

(***************************************************************************)
(* Helpers of the properties.                                              *)
(***************************************************************************)
RECURSIVE SumSeq(_)
SumSeq(s) == IF s = <<>> THEN 0 ELSE Head(s) + SumSeq(Tail(s))

\* the rows of the artifact that task i produced, in artifact order
RowsOf(i) ==
    LET mine(r) == r.task = i IN SelectSeq(csv.rows, mine)

\* entry a comes before entry b in fetch order: page order, then item order
FetchedBefore(a, b) ==
    a.page < b.page \/ (a.page = b.page /\ a.item < b.item)

\* a task whose wrapper ended on an exception without putting any record
CrashedEmpty(i) ==
    /\ w[i].pc = "exited"
    /\ w[i].status = "Exception"
    /\ emitted[i] = <<>>

\* the minute of the day of clock value t
TimeOfDay(t) == t % (24 * 60)

\* the configured window, in minutes of the day
WindowBegin == timer_settings.begin_hour * 60 + timer_settings.begin_minute

WindowEnd == timer_settings.end_hour * 60 + timer_settings.end_minute

\* some process of a batch is at work, or the launcher is inside a batch
BatchInProgress ==
    \/ lpc \notin {"idle", "done"}
    \/ wr.pc \in {"open", "loop"}
    \/ \E i \in TaskIds : w[i].pc \notin {"idle", "exited"}

\* the size of the page task i fetched last, -1 before the first page
LastPage(i) ==
    IF fetched[i] = <<>> THEN -1 ELSE fetched[i][Len(fetched[i])]

\* the records among the items s, in order
RecordsOf(s) ==
    LET isRecord(x) == x # STOP IN SelectSeq(s, isRecord)

\* sequence s is the beginning of sequence t
IsPrefix(s, t) ==
    /\ Len(s) <= Len(t)
    /\ \A n \in 1..Len(s) : s[n] = t[n]

\* every record task i has put is in the queue or a row of the artifact
Enqueued(i) ==
    \A k \in 1..Len(emitted[i]) :
        \/ \E n \in 1..Len(q) : q[n] = emitted[i][k]
        \/ \E n \in 1..Len(csv.rows) : csv.rows[n] = emitted[i][k]

\* every record task i has put is a row of the artifact
Delivered(i) ==
    \A k \in 1..Len(emitted[i]) :
        \E n \in 1..Len(csv.rows) : csv.rows[n] = emitted[i][k]

(***************************************************************************)
(* C1: a spider never puts more records on the queue than its task's       *)
(* limit, whatever page sizes the API returns and however the spiders      *)
(* interleave.                                                             *)
(***************************************************************************)
C1_EmittedAtMostLimit ==
    \A i \in TaskIds :
        /\ Len(emitted[i]) <= limit_per_task
        /\ w[i].count = Len(emitted[i])

\* a page held more entries than the limit left room for, and the spider
\* stopped at the limit
C1_Witness ==
    \E i \in TaskIds :
        /\ limit_per_task >= 1
        /\ SumSeq(fetched[i]) > limit_per_task
        /\ Len(emitted[i]) = limit_per_task
        /\ w[i].status = "LimitReached"

(***************************************************************************)
(* C2: with three concurrent spiders of which one crashes without output,  *)
(* the finished batch has every record of the other two in the artifact,   *)
(* has put the sentinel, and its writer ended by taking the sentinel.      *)
(***************************************************************************)
C2_CrashResilience ==
    (/\ use_concurrent
     /\ NTasks = 3
     /\ lpc = "done"
     /\ \E i \in TaskIds :
           /\ CrashedEmpty(i)
           /\ \A k \in TaskIds \ {i} :
                 emitted[k] # <<>> /\ w[k].driver = "closed")
    => /\ \A k \in TaskIds : Delivered(k)
       /\ stopPuts = 1
       /\ wr.pc = "done" /\ wr.exit = "stop"

(***************************************************************************)
(* C3: no failure local to one task reaches the caller of run_crawl_once   *)
(* or cuts the batch short, in concurrent and in serial mode.              *)
(***************************************************************************)
C3_FailureIsolated ==
    lpc # "raised"

(***************************************************************************)
(* C4: the sentinel is put at most once per batch, exactly once by the     *)
(* time the launcher waits for the writer, only when every spider of the   *)
(* batch has finished, and no record is ever behind it in the queue.       *)
(***************************************************************************)
C4_SentinelOnceAfterProducers ==
    /\ stopPuts <= 1
    /\ lpc \in {"join_writer", "done"} => stopPuts = 1
    /\ stopPuts = 1 => \A i \in TaskIds : w[i].pc = "exited"
    /\ \A k \in 1..Len(q) : q[k] = STOP => k = Len(q)

\* the sentinel is in the queue behind the records of two concurrent spiders
C4_Witness ==
    /\ use_concurrent
    /\ stopPuts = 1
    /\ Len(q) >= 3
    /\ q[Len(q)] = STOP
    /\ \E i, k \in TaskIds : i # k /\ emitted[i] # <<>> /\ emitted[k] # <<>>

(***************************************************************************)
(* C5: the rows of one task are in the artifact in fetch order (page       *)
(* order, then item order), however they interleave with other tasks'.     *)
(***************************************************************************)
C5_FifoWithinProducer ==
    \A i \in TaskIds :
        \A a, b \in 1..Len(RowsOf(i)) :
            a < b => FetchedBefore(RowsOf(i)[a], RowsOf(i)[b])

\* two rows of one task with a row of another task between them
C5_Witness ==
    /\ Len(csv.rows) >= 3
    /\ csv.rows[1].task = csv.rows[3].task
    /\ csv.rows[1].task # csv.rows[2].task

(***************************************************************************)
(* C6: a spider that ended on an empty page has put exactly as many        *)
(* records as the pages before it held entries.                            *)
(***************************************************************************)
C6_NoPrematureTruncation ==
    \A i \in TaskIds :
        w[i].status = "Exhausted" => Len(emitted[i]) = SumSeq(fetched[i])

\* a spider ended on an empty page after a page with entries
C6_Witness ==
    \E i \in TaskIds :
        /\ w[i].status = "Exhausted"
        /\ Len(emitted[i]) >= 1
        /\ Len(fetched[i]) >= 2

(***************************************************************************)
(* C7: a batch starts exactly one writer process (none only if it died on  *)
(* removing the old files, before anything was started), and every row     *)
(* that is added to the artifact is the item the running writer takes from *)
(* the head of the queue in that step.                                     *)
(***************************************************************************)
C7_SoleWriter ==
    /\ [](/\ nWriters <= 1
          /\ lpc \notin {"idle", "begin", "io_error"} => nWriters = 1
          /\ (lpc = "io_error" /\ nWriters = 0) =>
                \A i \in TaskIds : w[i].starts = 0)
    /\ [][Len(csv'.rows) > Len(csv.rows) =>
             /\ wr.pc = "loop"
             /\ q # <<>>
             /\ q' = Tail(q)
             /\ csv'.rows = Append(csv.rows, Head(q))]_vars

\* the one writer has written rows of two different tasks
C7_Witness ==
    /\ nWriters = 1
    /\ Len(csv.rows) >= 2
    /\ csv.rows[1].task # csv.rows[2].task

(***************************************************************************)
(* C8: from the moment the sentinel is put, the writer runs for at most    *)
(* the idle timeout plus the time it needs for the items that were ahead   *)
(* of the sentinel, also in a batch without any record.                    *)
(***************************************************************************)
C8_WriterEndsAfterSentinel ==
    stopPuts = 1 => clk.since <= IdleTimeout + clk.ahead * TickLen

\* a batch without records: time passed after the put, then the writer took
\* the sentinel
C8_Witness ==
    /\ stopPuts = 1
    /\ \A i \in TaskIds : emitted[i] = <<>>
    /\ clk.ahead = 0
    /\ clk.since > 0
    /\ wr.pc = "done" /\ wr.exit = "stop"

(***************************************************************************)
(* C9: a tick of the polling loop starts a batch exactly when the time of  *)
(* day it is evaluated at is at or after the begin and before the end of   *)
(* the window.                                                             *)
(***************************************************************************)
C9_ScheduleGating ==
    sched.lastTick.at # -1 =>
        (sched.lastTick.started <=>
            /\ WindowBegin <= TimeOfDay(sched.lastTick.at)
            /\ TimeOfDay(sched.lastTick.at) < WindowEnd)

\* window [02:00, 05:00): after a batch, the tick at 05:00 starts none
C9_Witness ==
    /\ WindowBegin = 120
    /\ WindowEnd = 300
    /\ sched.lastFinish # -1
    /\ sched.lastTick = [at |-> 300, started |-> FALSE]

(***************************************************************************)
(* C10: after a batch of the loop finished, the window is not evaluated    *)
(* again and no batch starts before the interval has passed; the loop      *)
(* evaluates the window and sleeps only while no batch is in progress (a   *)
(* batch is in progress only inside a tick, or after the loop has died).   *)
(***************************************************************************)
C10_IntervalAfterBatch ==
    /\ (sched.lastFinish # -1 /\ sched.lastTick.at # -1) =>
           sched.lastTick.at >= sched.lastFinish + timer_settings.interval
    /\ mpc \in {"tick", "sleep"} => ~BatchInProgress
    /\ BatchInProgress => mpc \in {"batch", "raised"}

\* interval 60: a batch finished at 02:10 and the next tick, at 03:10,
\* started the next batch
C10_Witness ==
    /\ timer_settings.interval = 60
    /\ sched.lastFinish = 130
    /\ sched.lastTick = [at |-> 190, started |-> TRUE]

(***************************************************************************)
(* C11: with the timer enabled, a batch that fails on an artifact I/O      *)
(* error (removing the old files, writing the preview) leaves main's loop  *)
(* alive.                                                                  *)
(***************************************************************************)
C11_LoopSurvivesBatchFailure ==
    (timer_settings.enable /\ lpc = "io_error") => mpc # "raised"

(***************************************************************************)
(* C12: with the timer disabled or absent, main calls run_crawl_once at    *)
(* most once, has called it exactly once when it returns, and never        *)
(* evaluates a window, sleeps or moves its clock.                          *)
(***************************************************************************)
C12_DisabledRunsOneBatch ==
    ~timer_settings.enable =>
        /\ sched.batches <= 1
        /\ mpc # "start" => sched.batches = 1
        /\ mpc = "returned" => lpc = "done"
        /\ mpc \notin {"tick", "sleep"}
        /\ sched.lastTick = NoTick
        /\ sched.now = 0

\* main has returned after its one batch, called without the "timer" key
C12_Witness ==
    /\ param.timer = NoTimer
    /\ mpc = "returned"
    /\ sched.batches = 1
    /\ html.exists

(***************************************************************************)
(* C13: a wrapper calls quit() on the session it created exactly once, as  *)
(* its last step, however the scrape ended (limit, exhaustion, fetch       *)
(* error, exception), in concurrent and in serial mode; no wrapper ends    *)
(* with its session still open and not quit, and none calls quit() without *)
(* a session.                                                              *)
(***************************************************************************)
C13_SessionReleased ==
    \A i \in TaskIds :
        /\ w[i].quits <= 1
        /\ w[i].quits = 1 <=> w[i].driver \in {"closed", "quit_raised"}
        /\ w[i].quits = 1 => w[i].pc \in {"exiting", "exited"}
        /\ w[i].pc = "exited" => w[i].driver # "open"
        /\ w[i].driver = "open" => w[i].pc \in {"loop", "items", "quit"}

\* serial mode: the first task died of an exception after its first record,
\* the second reached its limit; each session was quit once
C13_Witness ==
    /\ ~use_concurrent
    /\ NTasks >= 2
    /\ w[1].status = "Exception" /\ emitted[1] # <<>>
    /\ w[1].driver = "closed" /\ w[1].quits = 1
    /\ w[2].status = "LimitReached"
    /\ w[2].driver = "closed" /\ w[2].quits = 1

(***************************************************************************)
(* C14: no two tasks ever hold the same session, and a task that is        *)
(* fetching or putting records does so through the session its own wrapper *)
(* created, which is open at that moment.                                  *)
(***************************************************************************)
C14_SessionExclusive ==
    /\ \A i, k \in TaskIds :
          (i # k /\ w[i].session # 0) => w[i].session # w[k].session
    /\ \A i \in TaskIds :
          /\ w[i].session \in {0, i}
          /\ w[i].pc \in {"loop", "items"} =>
                /\ w[i].session # 0
                /\ w[w[i].session].driver = "open"

\* two concurrent tasks are both inside their scrape, each on its session
C14_Witness ==
    /\ use_concurrent
    /\ \E i, k \in TaskIds :
          /\ i # k
          /\ w[i].pc = "items" /\ w[k].pc = "items"
          /\ w[i].session = i /\ w[k].session = k

(***************************************************************************)
(* C15: a paging loop that has ended without an exception ended on the     *)
(* limit (count >= limit, found before any fetch of that turn), on an      *)
(* error response (found before the page is looked at) or on a page        *)
(* without entries, and each of the three always ends it: a turn of the    *)
(* loop with count >= limit ends it without a fetch, every other turn      *)
(* fetches once; the loop goes through a page's entries only below the     *)
(* limit and only when the page has entries.                               *)
(***************************************************************************)
C15_StopConditions ==
    /\ [](\A i \in TaskIds :
            /\ w[i].status \in {"none", "LimitReached", "FetchError",
                                "Exhausted", "Exception"}
            /\ w[i].status # "none" <=> w[i].pc \in {"quit", "exiting", "exited"}
            /\ w[i].status = "LimitReached" =>
                  w[i].count >= limit_per_task /\ w[i].last # "error"
            /\ w[i].status = "FetchError" <=> w[i].last = "error"
            /\ w[i].status = "FetchError" => w[i].count < limit_per_task
            /\ w[i].status = "Exhausted" <=> LastPage(i) = 0
            /\ w[i].status = "Exhausted" =>
                  w[i].count < limit_per_task /\ w[i].last = "jobs"
            /\ w[i].pc = "items" =>
                  w[i].count < limit_per_task /\ LastPage(i) > 0)
    /\ [][\A i \in TaskIds :
            (w[i].pc = "loop" /\ w'[i] # w[i]) =>
                IF w[i].count >= limit_per_task
                THEN /\ w'[i].status = "LimitReached"
                     /\ w'[i].fetches = w[i].fetches
                ELSE w'[i].fetches = w[i].fetches + 1]_vars

\* three tasks of one batch ended for the three reasons, the limit being
\* reached inside a page
C15_Witness ==
    /\ NTasks = 3
    /\ \E i, j, k \in TaskIds :
          /\ w[i].status = "LimitReached" /\ SumSeq(fetched[i]) > w[i].count
          /\ w[j].status = "Exhausted" /\ w[j].fetches >= 2
          /\ w[k].status = "FetchError" /\ w[k].fetches >= 2

(***************************************************************************)
(* C16: after a fetch gave an error or a malformed response the task       *)
(* fetches no more, its records stay in the queue or the artifact, and     *)
(* Job51Spider.run has not raised to the wrapper that called it.           *)
(***************************************************************************)
C16_NoThrowOnFetchFailure ==
    \A i \in TaskIds :
        w[i].last \in {"error", "malformed"} =>
            /\ w[i].pc \in {"quit", "exited"}
            /\ Enqueued(i)
            /\ w[i].status # "Exception"

(***************************************************************************)
(* C17: a writer that was started ends, whatever the spiders and the       *)
(* launcher do or fail to do; and it leaves its loop only by taking the    *)
(* sentinel from the head of the queue, or on an empty queue when nothing  *)
(* arrived for the whole idle timeout.                                     *)
(***************************************************************************)
C17_WriterTerminates ==
    /\ (wr.pc = "open") ~> (wr.pc = "done")
    /\ [][(wr.pc = "loop" /\ wr'.pc # "loop") =>
             /\ wr'.pc = "done"
             /\ \/ /\ q # <<>> /\ Head(q) = STOP
                   /\ wr'.exit = "stop"
                \/ /\ q = <<>> /\ clk.idle >= IdleTimeout
                   /\ wr'.exit = "timeout"]_vars

\* no sentinel was put and a spider is still inside its scrape: the writer
\* has ended on the idle timeout
C17_Witness ==
    /\ stopPuts = 0
    /\ \E i \in TaskIds : w[i].pc = "loop"
    /\ wr.pc = "done" /\ wr.exit = "timeout"
    /\ clk.idle = IdleTimeout

(***************************************************************************)
(* C18: when the writer has ended on the idle timeout, no spider of the    *)
(* batch is still running (starting its session, paging, or putting the    *)
(* entries of a page).                                                     *)
(***************************************************************************)
C18_TimeoutOnlyAfterProducers ==
    wr.exit = "timeout" =>
        \A i \in TaskIds : w[i].pc \notin {"init", "loop", "items"}

(***************************************************************************)
(* C19: from the moment the writer has opened the artifact its rows are    *)
(* exactly the records it has taken from the queue so far, in that order,  *)
(* each written in the step that took it; the sentinel is never a row; and *)
(* no step of a batch changes or removes a row once written (only the      *)
(* beginning of a next batch removes the file).                            *)
(***************************************************************************)
C19_StreamingAppendOnly ==
    /\ [](/\ wr.pc \in {"loop", "done"} =>
                csv.exists /\ csv.rows = RecordsOf(wr.got)
          /\ \A n \in 1..Len(csv.rows) : csv.rows[n] # STOP)
    /\ [][lpc # "begin" => IsPrefix(csv.rows, csv'.rows)]_vars

\* the writer is in its loop with rows written and a further record waiting
C19_Witness ==
    /\ wr.pc = "loop"
    /\ Len(csv.rows) >= 2
    /\ q # <<>>
    /\ Head(q) # STOP

(***************************************************************************)
(* C20: in concurrent mode every task is started exactly once, in task     *)
(* order; between two consecutive starts the launcher has slept at least   *)
(* the launch delay; while it is starting tasks the launcher can always    *)
(* go on to the next start, whatever the tasks started before are doing;   *)
(* and it joins, puts the sentinel and renders only when every task has    *)
(* been started.                                                           *)
(***************************************************************************)
C20_ConcurrentLaunch ==
    use_concurrent =>
        /\ \A i \in TaskIds :
              /\ w[i].starts <= 1
              /\ w[i].starts = 1 <=> w[i].pc # "idle"
              /\ w[i].starts = 1 <=> w[i].startedAt >= 0
        /\ \A i \in TaskIds \ {1} :
              w[i].starts = 1 =>
                  /\ w[i - 1].starts = 1
                  /\ w[i].startedAt - w[i - 1].startedAt >= LaunchDelay
        /\ lpc = "launch" => ENABLED Launch
        /\ lpc \in {"join", "put_stop", "join_writer", "done"} =>
              \A i \in TaskIds : w[i].starts = 1

\* the third task is about to be started while the first has already exited
\* and the second is putting the entries of a page
C20_Witness ==
    /\ use_concurrent
    /\ NTasks = 3
    /\ lpc = "launch" /\ li = 3
    /\ w[1].pc = "exited"
    /\ w[2].pc = "items"
    /\ w[3].starts = 0
    /\ w[2].startedAt = LaunchDelay

(***************************************************************************)
(* C21  Unbounded join-all.  In concurrent mode, as long as some task's    *)
(* process has not exited, the launcher has not put the sentinel, has not  *)
(* gone on to join the writer and has not rendered the report; the join on *)
(* a process that has not exited cannot return (no timeout); and a process *)
(* reaches "exited" only by its own last step, never by a step of the      *)
(* launcher (no reaping).                                                  *)
(***************************************************************************)
C21_UnboundedJoin ==
    /\ [](use_concurrent /\ (\E i \in TaskIds : w[i].pc # "exited") =>
            /\ stopPuts = 0
            /\ lpc \in {"idle", "begin", "io_error", "launch", "join"}
            /\ lpc \in {"launch", "join"} => ~html.exists
            /\ (lpc = "join" /\ w[li].pc # "exited") => ~ENABLED Join)
    /\ [][\A i \in TaskIds :
            (use_concurrent /\ w[i].pc # "exited" /\ w'[i].pc = "exited") =>
                /\ w[i].pc \in {"init", "quit", "exiting"}
                /\ lpc' = lpc /\ li' = li]_vars

\* the launcher still waits in its first join while the writer has already
\* given up after its idle timeout: nothing ends the wait but the task itself
C21_Witness ==
    /\ use_concurrent
    /\ lpc = "join" /\ li = 1
    /\ w[1].pc = "loop"
    /\ wr.exit = "timeout"
    /\ stopPuts = 0
    /\ ~html.exists

\* the position of x in the list s of distinct elements
Pos(s, x) == CHOOSE n \in 1..Len(s) : s[n] = x

\* the tasks that have been started and have not ended
ActiveTasks == {i \in TaskIds : w[i].pc \notin {"idle", "exited"}}

(***************************************************************************)
(* C22  Serial mode runs the tasks strictly one at a time.  With           *)
(* concurrent = false at most one task is active and at most one browser   *)
(* session is open at any moment; a task is entered only when the task     *)
(* before it has ended and its session has been released (or was never     *)
(* created); and the tasks are numbered, hence run, city-major and         *)
(* keyword-minor: a later task has a later city of the city list, or the   *)
(* same city and a later keyword of the keyword list.                      *)
(***************************************************************************)
C22_SerialOneAtATime ==
    ~use_concurrent =>
        /\ Cardinality(ActiveTasks) <= 1
        /\ Cardinality({i \in TaskIds : w[i].driver = "open"}) <= 1
        /\ \A i \in TaskIds \ {1} :
              w[i].pc # "idle" =>
                  /\ w[i - 1].pc = "exited"
                  /\ w[i - 1].driver \in {"none", "closed"}
        /\ \A i, k \in TaskIds :
              i < k =>
                  \/ Pos(city_list, TaskCity(i)) < Pos(city_list, TaskCity(k))
                  \/ /\ TaskCity(i) = TaskCity(k)
                     /\ Pos(job_list, TaskJob(i)) < Pos(job_list, TaskJob(k))

\* two cities by two keywords: the third task (second city, first keyword)
\* is putting its entries after the second (first city, second keyword) has
\* ended and released its session
C22_Witness ==
    /\ ~use_concurrent
    /\ NTasks = 4
    /\ lpc = "serial" /\ li = 3
    /\ w[3].pc = "items" /\ w[3].driver = "open"
    /\ w[2].pc = "exited" /\ w[2].driver = "closed"
    /\ w[4].pc = "idle"
    /\ TaskCity(2) = "Beijing" /\ TaskJob(2) = "Go"
    /\ TaskCity(3) = "Shanghai" /\ TaskJob(3) = "Java"

(***************************************************************************)
(* C23  Batch phase ordering.  In every completed batch the writer was     *)
(* started, then all tasks finished, then the sentinel was enqueued, then  *)
(* the writer terminated, then the HTML was rendered from the artifact the *)
(* terminated writer left.  A writer that ended on its idle timeout ended  *)
(* while the queue was empty, that is before the sentinel was enqueued; so *)
(* in a completed batch the order requires that the writer ended by        *)
(* taking the sentinel.                                                    *)
(***************************************************************************)
C23_PhaseOrder ==
    lpc = "done" =>
        /\ nWriters = 1
        /\ \A i \in TaskIds : w[i].pc = "exited"
        /\ stopPuts = 1
        /\ wr.pc = "done"
        /\ wr.exit = "stop"
        /\ html = generate_html_from_csv(csv)

\* how often the piece x occurs in the text s
Count(s, x) == Cardinality({n \in 1..Len(s) : s[n] = x})

\* the place of the first x in the text s
First(s, x) == CHOOSE n \in 1..Len(s) : s[n] = x /\ \A m \in 1..(n - 1) : s[m] # x

\* the rows of the table head and of the table body of a preview: the <tr>
\* start tags a reader of the text finds there
HeaderRows(h) ==
    Count(SubSeq(h.content, First(h.content, "<thead>"),
                 First(h.content, "</thead>")), "<tr>")
BodyRows(h) ==
    Count(SubSeq(h.content, First(h.content, "<tbody>"), Len(h.content)),
          "<tr>")

(***************************************************************************)
(* C24  End-to-end shape of a completed batch: the artifact has at most    *)
(* (number of tasks x limit) data rows, every data row's keyword is the    *)
(* keyword of the task that produced it, and the rendered HTML has one     *)
(* table with exactly one header row and as many body rows as the artifact *)
(* has data rows.                                                          *)
(***************************************************************************)
C24_EndToEndShape ==
    lpc = "done" =>
        /\ Len(csv.rows) <= NTasks * limit_per_task
        /\ \A n \in 1..Len(csv.rows) :
              csv.rows[n].keyword = TaskJob(csv.rows[n].task)
        /\ Count(html.content, "<table>") = 1
        /\ HeaderRows(html) = 1
        /\ BodyRows(html) = Len(csv.rows)

(***************************************************************************)
(* The batch under different contents of conf.ini: no file or no           *)
(* "citycode" section, a section without entries, a section with one city  *)
(* and the usual one; two tasks of the same city, known or unknown.        *)
(***************************************************************************)
Configs ==
    {<<>>,
     [s \in {"citycode"} |-> <<>>],
     [s \in {"citycode"} |-> [c \in {"Beijing"} |-> "010000"]],
     ConfIni}

ResolverParams ==
    [city : {<<"Beijing">>, <<"Atlantis">>}, job : {<<"Java", "Go">>},
     limit : {1}, concurrent : BOOLEAN, timer : {[enable |-> FALSE]}]

ResolverInit ==
    /\ param \in ResolverParams
    /\ config \in Configs
    /\ mpc = "start"
    /\ sched = NewSched(0)
    /\ InitBatchState

ResolverSpec == ResolverInit /\ [][Next]_vars

\* the cities that have a code in the parsed conf.ini
KnownCities ==
    IF "citycode" \in DOMAIN config THEN DOMAIN config["citycode"] ELSE {}

(***************************************************************************)
(* C25  CityCodeResolver.  A task whose city is not in the table gets the  *)
(* nationwide code "000000" (the lookup gives a code, it does not raise);  *)
(* two tasks of the same city get the same code; and the table is never    *)
(* changed.                                                                *)
(***************************************************************************)
C25_CityCodeResolver ==
    /\ [](\A i \in TaskIds :
            w[i].city_code # "none" =>
                /\ TaskCity(i) \notin KnownCities => w[i].city_code = "000000"
                /\ TaskCity(i) \in KnownCities =>
                      w[i].city_code = config["citycode"][TaskCity(i)]
                /\ \A k \in TaskIds :
                      (TaskCity(k) = TaskCity(i) /\ w[k].city_code # "none")
                          => w[k].city_code = w[i].city_code)
    /\ [][config' = config]_vars

\* both tasks of a city that is not in the table have resolved it, under a
\* table that has other cities
C25_Witness ==
    /\ NTasks = 2
    /\ TaskCity(1) = "Atlantis" /\ TaskCity(2) = "Atlantis"
    /\ "citycode" \in DOMAIN config
    /\ "Beijing" \in DOMAIN config["citycode"]
    /\ w[1].city_code = "000000"
    /\ w[2].city_code = "000000"

(***************************************************************************)
(* The renderer on its own: the launcher is at its last step, the writer   *)
(* has ended, and the artifact is any of: missing, without a single line,  *)
(* the header alone, the header and up to MaxRows rows.                    *)
(***************************************************************************)
MaxRows == 3

\* an artifact that exists and has no line at all
EmptyFile == [exists |-> TRUE, header |-> <<>>, rows |-> <<>>]

\* the sequences of at most n elements of S
RECURSIVE SeqsUpTo(_, _)
SeqsUpTo(S, n) ==
    IF n = 0 THEN {<<>>}
    ELSE LET shorter == SeqsUpTo(S, n - 1)
         IN  shorter \cup {Append(s, x) : s \in shorter, x \in S}

RenderInputs ==
    {NoFile, EmptyFile}
    \cup {[exists |-> TRUE, header |-> fieldnames, rows |-> rows] :
            rows \in SeqsUpTo({Result(1, 1, 1), Result(1, 1, 2),
                               Result(1, 2, 1)}, MaxRows)}

RenderInit ==
    /\ param \in [city : {<<"Beijing">>}, job : {<<>>}, limit : {MaxRows},
                  concurrent : {FALSE}, timer : {[enable |-> FALSE]}]
    /\ config = ConfIni
    /\ srv = NewServer
    /\ mpc = "batch"
    /\ sched = NewSched(0)
    /\ lpc = "join_writer"
    /\ li = 0
    /\ w = [i \in TaskIds |-> NewSpider]
    /\ emitted = [i \in TaskIds |-> <<>>]
    /\ fetched = [i \in TaskIds |-> <<>>]
    /\ q = <<>>
    /\ wr = [NewWriter EXCEPT !.pc = "done"]
    /\ csv \in RenderInputs
    /\ html = NoHtml
    /\ nWriters = 1
    /\ stopPuts = 1
    /\ clk = [idle |-> 0, busy |-> 0, since |-> 0, ahead |-> 0, launch |-> 0]

RenderSpec == RenderInit /\ [][JoinWriterAndRender]_vars

\* the strings that follow the tag in the text s
RECURSIVE After(_, _)
After(s, tag) ==
    IF Len(s) < 2 THEN <<>>
    ELSE IF Head(s) = tag THEN <<s[2]>> \o After(Tail(s), tag)
    ELSE After(Tail(s), tag)

(***************************************************************************)
(* C26  ReportRenderer tolerance.  Rendering a missing artifact or an      *)
(* artifact without a single line gives a preview: one table whose one     *)
(* header row has the ten fixed field names, and no body row.              *)
(***************************************************************************)
C26_RenderTolerance ==
    (lpc = "done" /\ csv \in {NoFile, EmptyFile}) =>
        /\ html.exists
        /\ Count(html.content, "<table>") = 1
        /\ HeaderRows(html) = 1
        /\ After(html.content, "<th>") = fieldnames
        /\ Len(fieldnames) = 10
        /\ BodyRows(html) = 0

\* the preview of an artifact that exists and has no line
C26_Witness ==
    /\ lpc = "done"
    /\ csv = EmptyFile
    /\ html.exists
    /\ After(html.content, "<th>") = fieldnames

\* the list the batch works with when the caller gave list s: the built-in
\* one when s is missing or empty
Effective(s, default) == IF Len(s) = 0 THEN default ELSE s

(***************************************************************************)
(* C27  Task set construction.  The tasks of a batch are the cartesian     *)
(* product of the effective city list and the effective keyword list (the  *)
(* built-in list where the caller's is missing or empty): there are as     *)
(* many tasks as pairs and each pair of a city and a keyword of those      *)
(* lists is the pair of a task of its own; no task is ever run more than   *)
(* once, and when the launcher is past its task loops every task has been  *)
(* run exactly once, each under the one limit of the batch.                *)
(***************************************************************************)
C27_TaskSetIsProduct ==
    LET cities == Effective(param.city, DEFAULT_CITIES)
        jobs == Effective(param.job, DEFAULT_JOBS)
    IN  /\ NTasks = Len(cities) * Len(jobs)
        /\ \A a \in 1..Len(cities), b \in 1..Len(jobs) :
              LET i == (a - 1) * Len(jobs) + b
              IN  TaskCity(i) = cities[a] /\ TaskJob(i) = jobs[b]
        /\ \A i \in TaskIds : w[i].starts <= 1
        /\ lpc \in {"put_stop", "join_writer", "done"} =>
              \A i \in TaskIds :
                  /\ w[i].starts = 1
                  /\ Len(emitted[i]) <= limit_per_task

\* a completed batch of two built-in cities (no city list given) by two
\* keywords: four tasks, each started once
C27_Witness ==
    /\ lpc = "done"
    /\ param.city = <<>>
    /\ param.job = <<"Java", "Go">>
    /\ NTasks = 4
    /\ \A i \in TaskIds : w[i].starts = 1
    /\ \E i \in TaskIds : Len(emitted[i]) = limit_per_task /\ limit_per_task > 0

(***************************************************************************)
(* C28  Complete delivery on sentinel.  Whenever the writer has ended by   *)
(* taking the sentinel, the data rows of the artifact are exactly the      *)
(* records the tasks of the batch have put: every task's records are its   *)
(* rows, in its order, and the artifact has no other row (nothing lost,    *)
(* nothing twice).                                                         *)
(***************************************************************************)
C28_CompleteDelivery ==
    wr.exit = "stop" =>
        /\ \A i \in TaskIds : RowsOf(i) = emitted[i]
        /\ Len(csv.rows) = SumSeq([i \in TaskIds |-> Len(emitted[i])])
        /\ \A n \in 1..Len(csv.rows) : csv.rows[n].task \in TaskIds

\* the writer took the sentinel after the records of two concurrent tasks,
\* the second task's first record ahead of the first task's second
C28_Witness ==
    /\ use_concurrent
    /\ NTasks = 2
    /\ wr.exit = "stop"
    /\ Len(emitted[1]) = 2
    /\ Len(emitted[2]) = 1
    /\ Len(csv.rows) = 3
    /\ csv.rows[2].task = 2

\* the entries of the pages the API returned to task i, page after page, as
\* the records they map to
PagesOf(i) ==
    Cat([p \in 1..Len(fetched[i]) |->
            [j \in 1..fetched[i][p] |-> Result(i, p, j)]])

\* the smaller of two numbers
Min(a, b) == IF a <= b THEN a ELSE b

RunningBatches == {t \in 1..MaxRequests : srv.thread[t].pc \in {"tasks", "join_writer"}}

\* the writers that have the artifact open for writing
OpenWriters == {t \in 1..MaxRequests : srv.thread[t].writer = "open"}

\* spider_thread = threading.Thread(target=spider_main.main, ...).start():
\* the t-th POST; main finds the timer disabled and calls run_crawl_once
get_spider(t) ==
    /\ srv.thread[t].pc = "none"
    /\ \A u \in 1..(t - 1) : srv.thread[u].pc # "none"
    /\ srv' = [srv EXCEPT !.thread[t].pc = "main"]
    /\ UNCHANGED <<param, config, sched, clk, mpc, lpc, li, w, emitted, fetched,
                   q, wr, csv, html, nWriters, stopPuts>>

\* run_crawl_once of thread t: os.remove of the old files, writer.start();
\* or os.remove raises (as it does on a file another process has open, where
\* the platform forbids that) and the exception ends main and the thread
ThreadCrawlBegin(t) ==
    /\ srv.thread[t].pc = "main"
    /\ \/ /\ csv' = NoFile
          /\ html' = NoHtml
          /\ srv' = [srv EXCEPT !.thread[t].pc = "tasks",
                                !.thread[t].writer = "started",
                                !.removed = @ \/ (csv.exists /\ OpenWriters # {})]
       \/ /\ csv.exists \/ html.exists
          /\ srv' = [srv EXCEPT !.thread[t].pc = "raised"]
          /\ UNCHANGED <<csv, html>>
    /\ UNCHANGED <<param, config, sched, clk, mpc, lpc, li, w, emitted, fetched,
                   q, wr, nWriters, stopPuts>>

\* WriterProcess.run of thread t's batch: open(self.file, "w"), writeheader
ThreadWriterOpen(t) ==
    /\ srv.thread[t].writer = "started"
    /\ csv' = [exists |-> TRUE, header |-> fieldnames, rows |-> <<>>]
    /\ srv' = [srv EXCEPT !.thread[t].writer = "open"]
    /\ UNCHANGED <<param, config, sched, clk, mpc, lpc, li, w, emitted, fetched,
                   q, wr, html, nWriters, stopPuts>>

\* the tasks of thread t's batch have ended without a record: q.put("STOP")
ThreadPutStop(t) ==
    /\ srv.thread[t].pc = "tasks"
    /\ srv' = [srv EXCEPT !.thread[t].pc = "join_writer"]
    /\ UNCHANGED <<param, config, sched, clk, mpc, lpc, li, w, emitted, fetched,
                   q, wr, csv, html, nWriters, stopPuts>>

\* the writer of thread t's batch leaves its loop, on the sentinel or on its
\* idle timeout, and closes the artifact
ThreadWriterEnd(t) ==
    /\ srv.thread[t].writer = "open"
    /\ srv' = [srv EXCEPT !.thread[t].writer = "closed"]
    /\ UNCHANGED <<param, config, sched, clk, mpc, lpc, li, w, emitted, fetched,
                   q, wr, csv, html, nWriters, stopPuts>>

\* writer.join(); generate_html_from_csv(csv_file, html_file); main returns
ThreadRender(t) ==
    /\ srv.thread[t].pc = "join_writer"
    /\ srv.thread[t].writer = "closed"
    /\ html' = generate_html_from_csv(csv)
    /\ srv' = [srv EXCEPT !.thread[t].pc = "returned"]
    /\ UNCHANGED <<param, config, sched, clk, mpc, lpc, li, w, emitted, fetched,
                   q, wr, csv, nWriters, stopPuts>>

ServerNext ==
    \E t \in 1..MaxRequests :
        \/ get_spider(t)
        \/ ThreadCrawlBegin(t)
        \/ ThreadWriterOpen(t)
        \/ ThreadPutStop(t)
        \/ ThreadWriterEnd(t)
        \/ ThreadRender(t)

ServerInit ==
    /\ param \in [city : {<<"Beijing">>}, job : {<<>>}, limit : {0},
                  concurrent : BOOLEAN, timer : {[enable |-> FALSE]}]
    /\ config = ConfIni
    /\ mpc = "start"
    /\ sched = NewSched(0)
    /\ InitBatchState

ServerSpec == ServerInit /\ [][ServerNext]_vars

(***************************************************************************)
(* C29  System-wide single writer.  Whatever crawl requests are posted to  *)
(* get_spider, at every moment at most one batch is in progress, at most   *)
(* one writer has the artifact open for writing, and no batch has removed  *)
(* the artifact while the writer of another batch had it open.             *)
(***************************************************************************)
C29_SystemWideSingleWriter ==
    /\ Cardinality(RunningBatches) <= 1
    /\ Cardinality(OpenWriters) <= 1
    /\ ~srv.removed

(***************************************************************************)
(* C31  Paging discipline.  A task requests its pages in strictly          *)
(* increasing order from page 1, without a gap and without asking for a    *)
(* page twice: its k-th fetch is the fetch of page k.  The fetch of the    *)
(* next page is issued only when every kept entry of the pages before it   *)
(* has been put on the queue, and the task's counter is always the number  *)
(* of records it has put so far.                                           *)
(***************************************************************************)
C31_PagingDiscipline ==
    \A i \in TaskIds :
        /\ w[i].count = Len(emitted[i])
        \* at the top of the loop the page to ask for is the one after the
        \* fetches made, and nothing of the pages returned is left to put
        /\ w[i].pc = "loop" =>
              /\ w[i].page = w[i].fetches + 1
              /\ Len(fetched[i]) = w[i].fetches
              /\ Len(emitted[i]) = Min(limit_per_task, SumSeq(fetched[i]))
        \* inside a page: it is the page fetched last, and the entries
        \* before entry j of it, with all the pages before it, were put
        /\ w[i].pc = "items" =>
              /\ w[i].page = w[i].fetches
              /\ Len(fetched[i]) = w[i].fetches
              /\ w[i].njobs = fetched[i][w[i].page]
              /\ Len(emitted[i]) = SumSeq(fetched[i]) - w[i].njobs + (w[i].j - 1)
        \* every record put carries a page that was fetched, pages in order
        /\ \A n \in 1..Len(emitted[i]) :
              /\ emitted[i][n].page \in 1..w[i].fetches
              /\ n > 1 => emitted[i][n - 1].page <= emitted[i][n].page

\* a task has fetched page 2 after it put the one entry of page 1, and is
\* at the first entry of page 2
C31_Witness ==
    /\ limit_per_task = 2
    /\ w[1].pc = "items"
    /\ w[1].page = 2
    /\ w[1].fetches = 2
    /\ fetched[1] = <<1, 2>>
    /\ emitted[1] = <<Result(1, 1, 1)>>

(***************************************************************************)
(* C32  No fetch after the cap.  A task whose count has reached its limit  *)
(* issues no further fetch: every fetch is made by a task at the top of    *)
(* its loop with count < limit, and once count >= limit the number of      *)
(* fetches stays what it is.  In particular a task that reached the limit  *)
(* on the last entry of a page does not request the next page, and a task  *)
(* with a limit of zero or less makes no fetch and puts no record (the     *)
(* batches explored have limits from 0; for the limits below 0 the first   *)
(* test of the loop is evaluated as the code evaluates it).                *)
(***************************************************************************)
C32_NoFetchAfterCap ==
    /\ [][\A i \in TaskIds :
            /\ w'[i].fetches # w[i].fetches =>
                  /\ w[i].pc = "loop"
                  /\ w[i].count < limit_per_task
                  /\ w'[i].fetches = w[i].fetches + 1
            /\ w[i].count >= limit_per_task =>
                  /\ w'[i].fetches = w[i].fetches
                  /\ emitted'[i] = emitted[i]]_vars
    /\ [](\A i \in TaskIds :
            /\ w[i].count <= limit_per_task
            /\ limit_per_task <= 0 =>
                  w[i].fetches = 0 /\ emitted[i] = <<>> /\ fetched[i] = <<>>)
    /\ \A l \in (0 - MaxLimit)..0 : LimitReached(0, l)

\* the limit of two was reached on the second and last entry of page 1: the
\* task has ended on the limit with that one fetch, page 2 never requested
C32_Witness ==
    /\ limit_per_task = 2
    /\ w[1].pc = "exited"
    /\ w[1].status = "LimitReached"
    /\ w[1].fetches = 1
    /\ w[1].page = 2
    /\ fetched[1] = <<2>>
    /\ Len(emitted[1]) = 2

\* a task with limit 0 has ended on the limit without a fetch or a record
C32_WitnessZero ==
    /\ limit_per_task = 0
    /\ w[1].pc = "exited"
    /\ w[1].status = "LimitReached"
    /\ w[1].fetches = 0
    /\ emitted[1] = <<>>

(***************************************************************************)
(* C33  Worker exit is independent of the writer.  Once the writer has     *)
(* ended (on its idle timeout, say), a task that has finished its scrape   *)
(* still exits: no process is held in its exit by the queue (whenever it   *)
(* is in its exit, it can leave it), so the launcher's join loop is not    *)
(* kept waiting by a finished task and the batch goes on to the sentinel   *)
(* and the preview.                                                        *)
(***************************************************************************)
C33_ExitIndependentOfWriter ==
    wr.pc = "done" =>
        \A i \in TaskIds : w[i].pc = "exiting" => ENABLED ProcessExit(i)

\* a process held in its exit after the writer has ended stays there, and
\* the launcher with it: nothing reads the pipe any more
C33_HeldForever ==
    [][\A i \in TaskIds :
          (wr.pc = "done" /\ w[i].pc = "exiting" /\ ~FeederFlushed(i)) =>
              /\ w'[i].pc = "exiting" /\ ~FeederFlushed(i)'
              /\ wr'.pc = "done"
              /\ (lpc = "join" /\ li <= i) => (lpc' = "join" /\ li' <= i)
              /\ stopPuts' = 0 /\ html' = html]_vars

\* the writer gave up on its timeout before the two tasks put their records:
\* the first has exited, the second waits in its exit for room in the pipe,
\* and the launcher waits in join for it; no step is left to take
C33_Held ==
    /\ NTasks = 2
    /\ use_concurrent
    /\ wr.exit = "timeout"
    /\ w[1].pc = "exited"
    /\ w[2].pc = "exiting" /\ w[2].status = "LimitReached"
    /\ w[2].driver = "closed"
    /\ lpc = "join" /\ li = 2
    /\ ~ENABLED Next

\* the launcher is between the start of the writer and the preview
InBatch == lpc \in {"launch", "serial", "join", "put_stop", "join_writer"}

(***************************************************************************)
(* C34  Batch isolation across the batches of one polling loop.  Each      *)
(* batch starts with a new, empty queue, without the artifact and without  *)
(* the preview of the batch before it, before its writer or any of its     *)
(* tasks has taken a step; its writer starts the artifact from nothing.    *)
(* So whatever is in the queue or in the artifact of a batch was put by a  *)
(* task of that batch, and from the start of a batch to its render step    *)
(* there is no preview file.                                               *)
(***************************************************************************)
C34_BatchIsolation ==
    /\ [](InBatch =>
            /\ ~html.exists
            /\ wr.pc = "open" => ~csv.exists
            /\ csv.rows = RecordsOf(wr.got)
            /\ \A i \in TaskIds : IsPrefix(RowsOf(i), emitted[i])
            /\ \A n \in 1..Len(q) :
                  q[n] # STOP =>
                      \E k \in 1..Len(emitted[q[n].task]) :
                          emitted[q[n].task][k] = q[n])
    /\ [](lpc = "done" =>
            \A i \in TaskIds : IsPrefix(RowsOf(i), emitted[i]))
    /\ [][(lpc = "begin" /\ InBatch') =>
            /\ q' = <<>>
            /\ ~csv'.exists /\ ~html'.exists
            /\ wr' = [NewWriter EXCEPT !.pc = "open"]
            /\ \A i \in TaskIds : w'[i] = NewSpider /\ emitted'[i] = <<>>]_vars

\* the second batch of a loop waits for its writer, which has ended on the
\* sentinel with no row written, after a first batch whose artifact had one
\* row: the artifact has no row and there is no preview
C34_Witness ==
    /\ sched.batches = 2
    /\ sched.lastRows = 1
    /\ lpc = "join_writer"
    /\ wr.pc = "done" /\ wr.exit = "stop"
    /\ csv.exists /\ csv.rows = <<>>
    /\ ~html.exists

\* the window of the day of clock value t opens at this clock value
OpensAt(t) == Replace(t, timer_settings.begin_hour, timer_settings.begin_minute)

\* the loop is about to evaluate the window, its last evaluation was an idle
\* poll, and the window has opened since
FirstTickAfterOpening ==
    /\ mpc = "tick"
    /\ sched.lastTick.at # -1
    /\ ~sched.lastTick.started
    /\ WindowBegin < WindowEnd
    /\ sched.lastTick.at < OpensAt(sched.now)
    /\ OpensAt(sched.now) <= sched.now

(***************************************************************************)
(* C35  Schedule responsiveness.  With begin < end, when the loop is       *)
(* waiting in its idle polling (not in the sleep after a batch) while the  *)
(* window opens, the first evaluation at or after begin starts a batch,    *)
(* and it comes within one poll period of the opening.                     *)
(***************************************************************************)
C35_ScheduleResponsive ==
    FirstTickAfterOpening =>
        /\ InWindow(sched.now)
        /\ sched.now - OpensAt(sched.now) <= PollSleep
        /\ ENABLED MainTick

\* the same for the windows that are longer than a poll period and the
\* minute a late evaluation can skip
C35_ResponsiveLongWindow ==
    (FirstTickAfterOpening /\ WindowEnd - WindowBegin > PollSleep) =>
        /\ InWindow(sched.now)
        /\ sched.now - OpensAt(sched.now) <= PollSleep
        /\ ENABLED MainTick

\* window [00:01, 00:02): the loop evaluated it at 00:00 and, its next turn
\* being late, at 00:02; no batch has started
C35_MissedWindow ==
    /\ WindowBegin = 1 /\ WindowEnd = 2
    /\ mpc = "tick"
    /\ sched.lastTick = [at |-> 1440, started |-> FALSE]
    /\ sched.now = 1442
    /\ sched.batches = 0
    /\ ~InWindow(sched.now)

(***************************************************************************)
(* C36  Degenerate window.  With the timer enabled and a begin time of day *)
(* that is not earlier than the end time of day (an empty window, or one   *)
(* that would run over midnight), no evaluation of the window ever starts  *)
(* a batch: run_crawl_once is never called, nothing of a batch exists, the *)
(* loop stays in its idle polling, and every turn of it sleeps the poll    *)
(* period before the next evaluation.                                      *)
(***************************************************************************)
C36_DegenerateWindow ==
    /\ []((timer_settings.enable /\ WindowBegin >= WindowEnd) =>
            /\ mpc \in {"start", "tick"}
            /\ sched.batches = 0
            /\ sched.lastFinish = -1
            /\ ~sched.lastTick.started
            /\ \A t \in 0..MaxNow : ~InWindow(t)
            /\ lpc = "idle"
            /\ ~BatchInProgress
            /\ nWriters = 0
            /\ q = <<>>)
    /\ [][(timer_settings.enable /\ WindowBegin >= WindowEnd /\ mpc = "tick") =>
            /\ mpc' = "tick"
            /\ sched'.lastTick = [at |-> sched.now, started |-> FALSE]
            /\ sched'.now - sched.now \in {PollSleep + late : late \in PollLate}]_vars

\* window [05:00, 02:00): the evaluations at 01:59 and, three hours of
\* polling later, at 05:00 have started no batch
C36_Witness ==
    /\ WindowBegin = 300 /\ WindowEnd = 120
    /\ mpc = "tick"
    /\ sched.lastTick = [at |-> 300, started |-> FALSE]
    /\ sched.batches = 0
    /\ lpc = "idle"

\* the empty window [02:00, 02:00): the evaluation at 02:00 started no batch
C36_WitnessEmpty ==
    /\ WindowBegin = 120 /\ WindowEnd = 120
    /\ sched.lastTick = [at |-> 120, started |-> FALSE]
    /\ sched.batches = 0

=============================================================================
